---- MODULE Spec2Model ----
(***************************************************************************)
(* State-transition core of the Tetris game of src/src/main.ts (the first  *)
(* revision in the file, lines 1-730): the State value threaded through    *)
(* scan(), the transition functions tick, movePieceLeft, movePieceRight,   *)
(* movePieceDown, rotatePiece and restartGame, and the helpers they call.  *)
(*                                                                         *)
(* Coordinates are kept as the code keeps them: a cube stores its x and y  *)
(* in pixels (as decimal strings in the code; String(Number(s) + n) is     *)
(* exact on these integers, so the model keeps the integer), and the grid  *)
(* column/row of a cube is Math.floor(x / Block.WIDTH), floor(y / HEIGHT). *)
(*                                                                         *)
(* Cubes are heap objects.  descend moves the cubes of a cubeList in place *)
(* while every other transition builds new cubes, so the model records     *)
(* which holders share the cubes of currentPiece.cubeList: nextShared for  *)
(* nextPiece, and an owner tag in each grid cell.                          *)
(*                                                                         *)
(* The grid is scaled down from 10 x 20 to GRID_WIDTH x GRID_HEIGHT cells   *)
(* and a game is followed for MaxSteps transitions, so that the reachable  *)
(* states can be enumerated; the spawn cells of the catalog (columns 3..5, *)
(* rows 0..3) are those of the code.                                       *)
(***************************************************************************)
EXTENDS Integers, Sequences, FiniteSets, TLC

VARIABLES
  gameEnd,       \* State.gameEnd
  gameGrid,      \* State.gameGrid: GRID_HEIGHT rows of GRID_WIDTH cells
  currentPiece,  \* State.currentPiece
  nextPiece,     \* State.nextPiece
  level,         \* State.level
  score,         \* State.score
  highScore,     \* State.highScore
  nextShared,    \* heap: nextPiece.cubeList is the array currentPiece.cubeList
  scoreSeen,     \* score$: the last score distinctUntilChanged let through
  timerPeriod,   \* dynamicTick$: the period of the running interval, in ms
  timerFired,    \* dynamicTick$: the running interval has delivered a tick
  steps,         \* transitions applied since initialState or the last restartGame
  lastAction     \* the transition that produced this state

vars == <<gameEnd, gameGrid, currentPiece, nextPiece, level, score, highScore,
          nextShared, scoreSeen, timerPeriod, timerFired, steps, lastAction>>

\* The state of the tick source.
timerVars == <<scoreSeen, timerPeriod, timerFired>>

-----------------------------------------------------------------------------
(* Constants *)

\* Constants.GRID_WIDTH (10 in the code), scaled down; the catalog needs >= 6.
GRID_WIDTH == 6

\* Constants.GRID_HEIGHT (20 in the code), scaled down; the catalog needs >= 4.
GRID_HEIGHT == 5

\* Block.WIDTH = Viewport.CANVAS_WIDTH / Constants.GRID_WIDTH = 200 / 10.
BlockWIDTH == 20

\* Block.HEIGHT = Viewport.CANVAS_HEIGHT / Constants.GRID_HEIGHT = 400 / 20.
BlockHEIGHT == 20

\* The number of catalog entries Math.random() may select (a prefix of
\* storedPieces: O, I, J, L, T, S, Z).
EnabledPieces == 3

\* The number of transitions followed after initialState or a restartGame.
MaxSteps == 6

\* The score up to which the long game of SpecLong is followed.
LongMaxScore == 4

\* Constants.TICK_RATE_MS
TICK_RATE_MS == 500

\* minTickRate in dynamicTick$
minTickRate == 100

\* maxScore in dynamicTick$
maxScore == 10

\* A grid cell without a cube (null in the code).
NULL == <<>>

\* A grid cell holding a registered cube object.  owner tells whose cubeList
\* the object still belongs to: "cur" (currentPiece.cubeList), "next"
\* (nextPiece.cubeList, when that is another array) or "none".
Cell(cubeProps, owner) == <<cubeProps, owner>>

cubeOf(cell) == cell[1]
ownerOf(cell) == cell[2]

-----------------------------------------------------------------------------
(* Piece catalog *)

createCube(x, y) == [x |-> BlockWIDTH * (x - 1), y |-> BlockHEIGHT * (y - 1)]

createPiece(shape, positions) ==
  [shape |-> shape, static |-> FALSE,
   cubeList |-> [i \in 1..Len(positions) |-> createCube(positions[i][1], positions[i][2])]]

preparePieces ==
  << createPiece("O", << <<5, 1>>, <<6, 1>>, <<5, 2>>, <<6, 2>> >>),
     createPiece("I", << <<6, 1>>, <<6, 2>>, <<6, 3>>, <<6, 4>> >>),
     createPiece("J", << <<4, 1>>, <<5, 1>>, <<6, 1>>, <<6, 2>> >>),
     createPiece("L", << <<4, 1>>, <<5, 1>>, <<6, 1>>, <<4, 2>> >>),
     createPiece("T", << <<4, 1>>, <<5, 1>>, <<6, 1>>, <<5, 2>> >>),
     createPiece("S", << <<5, 1>>, <<6, 1>>, <<4, 2>>, <<5, 2>> >>),
     createPiece("Z", << <<4, 1>>, <<5, 1>>, <<5, 2>>, <<6, 2>> >>) >>

\* The indices Math.floor(Math.random() * storedPieces.length) may take.
RandomIndices == 1..EnabledPieces

getRandomPiece(storedPieces, randomIndex) == storedPieces[randomIndex]

-----------------------------------------------------------------------------
(* Geometry *)

cubeX(cubeProps) == cubeProps.x \div BlockWIDTH
cubeY(cubeProps) == cubeProps.y \div BlockHEIGHT

\* The grid cells (column, row) of a piece, in cubeList order.
Cells(piece) == [i \in 1..Len(piece.cubeList) |->
                   <<cubeX(piece.cubeList[i]), cubeY(piece.cubeList[i])>>]

CellSet(piece) == {Cells(piece)[i] : i \in 1..Len(piece.cubeList)}

emptyRow == [c \in 1..GRID_WIDTH |-> NULL]

emptyGrid == [r \in 1..GRID_HEIGHT |-> emptyRow]

\* gameGrid[row][column] with the code's 0-based indices.
cellAt(grid, column, row) == grid[row + 1][column + 1]

\* isCollision without the upper boundary: a target above row 0 is free.
isCollision_NoTopBound(piece, grid, offsetX, offsetY) ==
  \E i \in 1..Len(piece.cubeList) :
    LET targetX == cubeX(piece.cubeList[i]) + offsetX
        targetY == cubeY(piece.cubeList[i]) + offsetY
    IN  \/ targetX < 0
        \/ targetX >= GRID_WIDTH
        \/ targetY >= GRID_HEIGHT
        \/ (targetY >= 0 /\ cellAt(grid, targetX, targetY) # NULL)

\* isCollision without the test of the target cell: only the boundaries count.
isCollision_BoundsOnly(piece, grid, offsetX, offsetY) ==
  \E i \in 1..Len(piece.cubeList) :
    LET targetX == cubeX(piece.cubeList[i]) + offsetX
        targetY == cubeY(piece.cubeList[i]) + offsetY
    IN  \/ targetX < 0
        \/ targetX >= GRID_WIDTH
        \/ targetY < 0
        \/ targetY >= GRID_HEIGHT

isCollision(piece, grid, offsetX, offsetY) ==
  \E i \in 1..Len(piece.cubeList) :
    LET targetX == cubeX(piece.cubeList[i]) + offsetX
        targetY == cubeY(piece.cubeList[i]) + offsetY
    IN  \/ targetX < 0
        \/ targetX >= GRID_WIDTH
        \/ targetY < 0
        \/ targetY >= GRID_HEIGHT
        \/ cellAt(grid, targetX, targetY) # NULL

isCollisionLeft(piece, grid) == isCollision(piece, grid, -1, 0)
isCollisionRight(piece, grid) == isCollision(piece, grid, 1, 0)
isCollisionDown(piece, grid) == isCollision(piece, grid, 0, 1)

-----------------------------------------------------------------------------
(* State processing *)

\* The State value the reducer holds, with the heap fact the in-place
\* updates of descend depend on.
State ==
  [gameEnd |-> gameEnd, gameGrid |-> gameGrid, currentPiece |-> currentPiece,
   nextPiece |-> nextPiece, level |-> level, score |-> score,
   highScore |-> highScore, nextShared |-> nextShared]

\* The cubes of a cubeList translated by whole pixels.
shiftCubes(cubeList, dx, dy) ==
  [i \in 1..Len(cubeList) |-> [x |-> cubeList[i].x + dx, y |-> cubeList[i].y + dy]]

\* The grid with f applied to every registered cube.
mapCells(grid, f(_)) ==
  [r \in 1..Len(grid) |-> [c \in 1..Len(grid[r]) |->
     IF grid[r][c] = NULL THEN NULL ELSE f(grid[r][c])]]

\* currentPiece receives a cubeList of new cubes: the registered cubes of the
\* old cubeList belong to nextPiece.cubeList if that is the same array, and
\* to no piece otherwise.
releaseCurrent(grid, shared) ==
  mapCells(grid, LAMBDA cell :
    IF ownerOf(cell) = "cur"
    THEN Cell(cubeOf(cell), IF shared THEN "next" ELSE "none")
    ELSE cell)

\* The registered cubes that belong to currentPiece.cubeList move with it.
moveOwned(grid, dy) ==
  mapCells(grid, LAMBDA cell :
    IF ownerOf(cell) = "cur"
    THEN Cell([x |-> cubeOf(cell).x, y |-> cubeOf(cell).y + dy], "cur")
    ELSE cell)

canMoveLeft(piece) == \A i \in 1..Len(piece.cubeList) : cubeX(piece.cubeList[i]) > 0

canMoveRight(piece) ==
  \A i \in 1..Len(piece.cubeList) : cubeX(piece.cubeList[i]) < GRID_WIDTH - 1

\* movePieceLeft that moves the cubes in place, as descend does: every holder
\* of the cubes sees them moved.
movePieceLeft_InPlace(state) ==
  IF canMoveLeft(state.currentPiece) /\ ~isCollisionLeft(state.currentPiece, state.gameGrid)
  THEN [state EXCEPT
          !.currentPiece.cubeList = shiftCubes(@, -BlockWIDTH, 0),
          !.nextPiece.cubeList =
             IF state.nextShared
             THEN shiftCubes(state.currentPiece.cubeList, -BlockWIDTH, 0) ELSE @,
          !.gameGrid = mapCells(@, LAMBDA cell :
             IF ownerOf(cell) = "cur"
             THEN Cell([x |-> cubeOf(cell).x - BlockWIDTH, y |-> cubeOf(cell).y], "cur")
             ELSE cell)]
  ELSE state

\* movePieceLeft with the boundary test only, without isCollisionLeft.
movePieceLeft_BoundaryOnly(state) ==
  IF canMoveLeft(state.currentPiece)
  THEN [state EXCEPT !.currentPiece.cubeList = shiftCubes(@, -BlockWIDTH, 0),
                     !.gameGrid = releaseCurrent(@, state.nextShared),
                     !.nextShared = FALSE]
  ELSE state

\* cubeList.map(...) builds new cubes, in a new array.
movePieceLeft(state) ==
  IF canMoveLeft(state.currentPiece) /\ ~isCollisionLeft(state.currentPiece, state.gameGrid)
  THEN [state EXCEPT !.currentPiece.cubeList = shiftCubes(@, -BlockWIDTH, 0),
                     !.gameGrid = releaseCurrent(@, state.nextShared),
                     !.nextShared = FALSE]
  ELSE state

\* movePieceRight written by copying movePieceLeft, the subtraction kept.
movePieceRight_Subtracts(state) ==
  IF canMoveRight(state.currentPiece) /\ ~isCollisionRight(state.currentPiece, state.gameGrid)
  THEN [state EXCEPT !.currentPiece.cubeList = shiftCubes(@, -BlockWIDTH, 0),
                     !.gameGrid = releaseCurrent(@, state.nextShared),
                     !.nextShared = FALSE]
  ELSE state

movePieceRight(state) ==
  IF canMoveRight(state.currentPiece) /\ ~isCollisionRight(state.currentPiece, state.gameGrid)
  THEN [state EXCEPT !.currentPiece.cubeList = shiftCubes(@, BlockWIDTH, 0),
                     !.gameGrid = releaseCurrent(@, state.nextShared),
                     !.nextShared = FALSE]
  ELSE state

\* descend copies the piece object ({...piece}) but not its cubeList: the
\* cubes are moved in place, the static flag is set on the copy.
descend(piece, grid) ==
  IF ~isCollisionDown(piece, grid)
  THEN [piece EXCEPT !.cubeList = shiftCubes(@, 0, BlockHEIGHT)]
  ELSE [piece EXCEPT !.static = TRUE]

\* The state once descend(state.currentPiece, state.gameGrid) has run and its
\* result is stored as currentPiece: every holder of the cubes sees them moved.
afterDescend(state) ==
  LET canDescend == ~isCollisionDown(state.currentPiece, state.gameGrid)
      updatedPiece == descend(state.currentPiece, state.gameGrid)
  IN  [state EXCEPT !.currentPiece = updatedPiece,
                    !.nextPiece.cubeList =
                       IF state.nextShared THEN updatedPiece.cubeList ELSE @,
                    !.gameGrid = IF canDescend THEN moveOwned(@, BlockHEIGHT) ELSE @]

\* movePieceDown without the recursion: one row per key press.
movePieceDown_OneRow(state) == afterDescend(state)

RECURSIVE movePieceDown(_)
movePieceDown(state) ==
  LET updated == afterDescend(state)
  IN  IF isCollisionDown(updated.currentPiece, updated.gameGrid)
      THEN updated
      ELSE movePieceDown(updated)

rotatePieceTemporarily(piece) ==
  LET centerX == piece.cubeList[1].x
      centerY == piece.cubeList[1].y
      rotate(cubeProps) ==
        LET x == cubeProps.x + BlockWIDTH \div 2
            y == cubeProps.y + BlockHEIGHT \div 2
            deltaX == x - centerX
            deltaY == y - centerY
            newX == centerX + deltaY
            newY == centerY - deltaX
        IN  [x |-> newX - BlockWIDTH \div 2, y |-> newY - BlockHEIGHT \div 2]
  IN  [piece EXCEPT !.cubeList = [i \in 1..Len(piece.cubeList) |-> rotate(piece.cubeList[i])]]

\* The test of rotatePiece without the exemption of the "O" piece.
rotationAccepted_AnyShape(state) ==
  LET rotatedPiece == rotatePieceTemporarily(state.currentPiece)
  IN  /\ ~isCollisionLeft(rotatedPiece, state.gameGrid)
      /\ ~isCollisionRight(rotatedPiece, state.gameGrid)
      /\ ~isCollisionDown(rotatedPiece, state.gameGrid)

\* Whether rotatePiece takes the rotated candidate.
rotationAccepted(state) ==
  /\ state.currentPiece.shape # "O"
  /\ LET rotatedPiece == rotatePieceTemporarily(state.currentPiece)
     IN  /\ ~isCollisionLeft(rotatedPiece, state.gameGrid)
         /\ ~isCollisionRight(rotatedPiece, state.gameGrid)
         /\ ~isCollisionDown(rotatedPiece, state.gameGrid)

rotatePiece(state) ==
  IF rotationAccepted(state)
  THEN [state EXCEPT !.currentPiece = rotatePieceTemporarily(state.currentPiece),
                     !.gameGrid = releaseCurrent(@, state.nextShared),
                     !.nextShared = FALSE]
  ELSE state

\* updatedGrid[cubeY][cubeX] = cubeProps for each cube in turn: the cell holds
\* the cube object itself, the last one written if several share a cell.
\* registerGameGrid that writes no cube.
registerGameGrid_Nothing(grid, piece) == grid

registerGameGrid(grid, piece) ==
  IF piece.static
  THEN [r \in 1..Len(grid) |-> [c \in 1..Len(grid[r]) |->
          LET here == {i \in 1..Len(piece.cubeList) : Cells(piece)[i] = <<c - 1, r - 1>>}
          IN  IF here = {} THEN grid[r][c]
              ELSE Cell(piece.cubeList[CHOOSE i \in here : \A j \in here : j <= i], "cur")]]
  ELSE grid

isRowFilled(row) == \A c \in 1..Len(row) : row[c] # NULL

filledRowCount(grid) == Cardinality({r \in 1..Len(grid) : isRowFilled(grid[r])})

\* ScoreAdjustment with a bonus for several rows at once: n rows give n * n.
ScoreAdjustment_Bonus(grid, sc, hs) ==
  LET updatedScore == sc + filledRowCount(grid) * filledRowCount(grid)
  IN  [updatedScore |-> updatedScore,
       updatedHighScore |-> IF updatedScore > hs THEN updatedScore ELSE hs]

\* ScoreAdjustment with the reduce started at 0 instead of the score.
ScoreAdjustment_FromZero(grid, sc, hs) ==
  LET updatedScore == filledRowCount(grid)
  IN  [updatedScore |-> updatedScore,
       updatedHighScore |-> IF updatedScore > hs THEN updatedScore ELSE hs]

ScoreAdjustment(grid, sc, hs) ==
  LET updatedScore == sc + filledRowCount(grid)
  IN  [updatedScore |-> updatedScore,
       updatedHighScore |-> IF updatedScore > hs THEN updatedScore ELSE hs]

\* checkGameOver that finds no game over.
checkGameOver_Never(grid) == FALSE

checkGameOver(grid) == \E c \in 1..Len(grid[1]) : grid[1][c] # NULL

\* eliminateRow without the new empty rows: the full rows are only removed.
eliminateRow_NoNewRows(s) ==
  LET updatedGameGrid == SelectSeq(s.gameGrid, LAMBDA row : ~isRowFilled(row))
  IN  [s EXCEPT !.gameGrid = updatedGameGrid]

\* eliminateRow with the new rows put under the remaining rows.
eliminateRow_NewRowsLast(s) ==
  LET updatedGameGrid == SelectSeq(s.gameGrid, LAMBDA row : ~isRowFilled(row))
      clearedLines == Len(s.gameGrid) - Len(updatedGameGrid)
      newRows == [i \in 1..clearedLines |-> emptyRow]
  IN  [s EXCEPT !.gameGrid = updatedGameGrid \o newRows]

\* eliminateRow with the filter inverted on empty rows: it keeps the rows
\* that hold a cube and are not full.
eliminateRow_DropsEmptyRows(s) ==
  LET updatedGameGrid ==
        SelectSeq(s.gameGrid, LAMBDA row :
          ~isRowFilled(row) /\ \E c \in 1..Len(row) : row[c] # NULL)
      clearedLines == Len(s.gameGrid) - Len(updatedGameGrid)
      newRows == [i \in 1..clearedLines |-> emptyRow]
  IN  [s EXCEPT !.gameGrid = newRows \o updatedGameGrid]

\* eliminateRow that removes nothing.
eliminateRow_KeepsRows(s) == s

eliminateRow(s) ==
  LET updatedGameGrid == SelectSeq(s.gameGrid, LAMBDA row : ~isRowFilled(row))
      clearedLines == Len(s.gameGrid) - Len(updatedGameGrid)
      newRows == [i \in 1..clearedLines |-> emptyRow]
  IN  [s EXCEPT !.gameGrid = newRows \o updatedGameGrid]

\* currentPiece becomes the nextPiece object: the registered cubes follow the
\* array they belong to.
promoteOwners(grid, shared) ==
  mapCells(grid, LAMBDA cell :
    CASE ownerOf(cell) = "cur" -> Cell(cubeOf(cell), IF shared THEN "cur" ELSE "none")
      [] ownerOf(cell) = "next" -> Cell(cubeOf(cell), "cur")
      [] OTHER -> cell)

\* randomIndex is the draw of getRandomPiece for the new nextPiece.
checkAndReplacePiece(currentState, randomIndex) ==
  IF ~currentState.gameEnd /\ currentState.currentPiece.static
  THEN [currentState EXCEPT !.currentPiece = currentState.nextPiece,
                            !.nextPiece = getRandomPiece(preparePieces, randomIndex),
                            !.gameGrid = promoteOwners(@, currentState.nextShared),
                            !.nextShared = FALSE]
  ELSE currentState

\* restartGame that resets the high score with the score.
restartGame_ResetsHighScore(state, currentIndex, nextIndex) ==
  [state EXCEPT !.gameEnd = FALSE,
                !.gameGrid = emptyGrid,
                !.currentPiece = getRandomPiece(preparePieces, currentIndex),
                !.nextPiece = getRandomPiece(preparePieces, nextIndex),
                !.level = 0,
                !.score = 0,
                !.highScore = 0,
                !.nextShared = (currentIndex = nextIndex)]

\* restartGame that keeps the grid of the game before.
restartGame_KeepsGrid(state, currentIndex, nextIndex) ==
  [state EXCEPT !.gameEnd = FALSE,
                !.gameGrid = releaseCurrent(releaseCurrent(@, TRUE), FALSE),
                !.currentPiece = getRandomPiece(preparePieces, currentIndex),
                !.nextPiece = getRandomPiece(preparePieces, nextIndex),
                !.level = 0,
                !.score = 0,
                !.nextShared = (currentIndex = nextIndex)]

\* Both pieces are drawn from one catalog: equal draws give one piece object.
restartGame(state, currentIndex, nextIndex) ==
  [state EXCEPT !.gameEnd = FALSE,
                !.gameGrid = emptyGrid,
                !.currentPiece = getRandomPiece(preparePieces, currentIndex),
                !.nextPiece = getRandomPiece(preparePieces, nextIndex),
                !.level = 0,
                !.score = 0,
                !.nextShared = (currentIndex = nextIndex)]

\* const v = e followed by body(v): e is evaluated once.
const(e, body(_)) == CHOOSE result \in {body(v) : v \in {e}} : TRUE

\* The state tick builds, with level left as it was.
tickUpdatedState_LevelKept(s) ==
  const(afterDescend(s), LAMBDA d :
  const(registerGameGrid(d.gameGrid, d.currentPiece), LAMBDA updatedGrid :
  const(ScoreAdjustment(updatedGrid, s.score, s.highScore), LAMBDA adj :
    [d EXCEPT !.gameGrid = updatedGrid,
              !.gameEnd = checkGameOver(updatedGrid),
              !.score = adj.updatedScore,
              !.highScore = adj.updatedHighScore])))

\* The state tick builds before eliminateRow and checkAndReplacePiece.
tickUpdatedState(s) ==
  const(afterDescend(s), LAMBDA d :
  const(registerGameGrid(d.gameGrid, d.currentPiece), LAMBDA updatedGrid :
  const(ScoreAdjustment(updatedGrid, s.score, s.highScore), LAMBDA adj :
    [d EXCEPT !.gameGrid = updatedGrid,
              !.gameEnd = checkGameOver(updatedGrid),
              !.level = adj.updatedScore,
              !.score = adj.updatedScore,
              !.highScore = adj.updatedHighScore])))

\* tick with checkGameOver applied to the grid eliminateRow returns.
tick_GameOverAfterElimination(s, randomIndex) ==
  LET eliminated == eliminateRow(tickUpdatedState(s))
  IN  checkAndReplacePiece(
        [eliminated EXCEPT !.gameEnd = checkGameOver(eliminated.gameGrid)], randomIndex)

tick(s, randomIndex) ==
  const(tickUpdatedState(s), LAMBDA updatedState :
  const(eliminateRow(updatedState), LAMBDA stateAfterElimination :
    checkAndReplacePiece(stateAfterElimination, randomIndex)))

-----------------------------------------------------------------------------
(* The tick source: scoreSubject, score$ and dynamicTick$ *)

\* The period switchMap gives the new interval.  score / maxScore *
\* tickRateRange is a floating-point product in the code; for the integer
\* scores of the game it is the integer score * tickRateRange / maxScore.
tickRate_Unclamped(sc) ==
  LET maxTickRate == TICK_RATE_MS
      tickRateRange == maxTickRate - minTickRate
  IN  maxTickRate - (sc * tickRateRange) \div maxScore

tickRate(sc) ==
  LET maxTickRate == TICK_RATE_MS
      tickRateRange == maxTickRate - minTickRate
      newTickRate == maxTickRate - (sc * tickRateRange) \div maxScore
  IN  IF minTickRate >= newTickRate THEN minTickRate ELSE newTickRate

\* renderHUD calls scoreSubject.next(s.score) for every emitted state s:
\* distinctUntilChanged lets a score through when it differs from the last
\* one it let through, and switchMap then unsubscribes from the running
\* interval and subscribes to a new one.  byTick: s was produced by a tick
\* of the running interval.
Observe_EveryScore(s, byTick) ==
  /\ scoreSeen' = s.score
  /\ timerPeriod' = tickRate(s.score)
  /\ timerFired' = FALSE

Observe(s, byTick) ==
  /\ scoreSeen' = s.score
  /\ timerPeriod' = IF s.score # scoreSeen THEN tickRate(s.score) ELSE timerPeriod
  /\ timerFired' = IF s.score # scoreSeen THEN FALSE ELSE (timerFired \/ byTick)

-----------------------------------------------------------------------------
(* The reducer: scan((s, action) => action(s), initialState) *)

\* initialState: the two pieces come from two catalogs (initialStoredPieces,
\* secondaryStoredPieces), so they share no cubes.
Init ==
  /\ gameEnd = FALSE
  /\ gameGrid = emptyGrid
  /\ \E i \in RandomIndices : currentPiece = getRandomPiece(preparePieces, i)
  /\ \E j \in RandomIndices : nextPiece = getRandomPiece(preparePieces, j)
  /\ level = 0
  /\ score = 0
  /\ highScore = 0
  /\ nextShared = FALSE
  /\ scoreSeen = 0
  /\ timerPeriod = tickRate(0)
  /\ timerFired = FALSE
  /\ steps = 0
  /\ lastAction = "init"

\* The reducer stores the state an action returns.
Emit(t) ==
  /\ gameEnd' = t.gameEnd
  /\ gameGrid' = t.gameGrid
  /\ currentPiece' = t.currentPiece
  /\ nextPiece' = t.nextPiece
  /\ level' = t.level
  /\ score' = t.score
  /\ highScore' = t.highScore
  /\ nextShared' = t.nextShared

\* The reducer applies one event of source$; steps saturates at MaxSteps.
Play(t, action) ==
  /\ Emit(t)
  /\ Observe(t, action = "tick")
  /\ steps' = IF steps < MaxSteps THEN steps + 1 ELSE steps
  /\ lastAction' = action

\* One event of source$ within the followed part of a game.
Apply(t, action) ==
  /\ steps < MaxSteps
  /\ Play(t, action)

Tick == \E randomIndex \in RandomIndices : Apply(tick(State, randomIndex), "tick")

MoveLeft == Apply(movePieceLeft(State), "left")

MoveRight == Apply(movePieceRight(State), "right")

MoveDown == Apply(movePieceDown(State), "down")

Rotate == Apply(rotatePiece(State), "rotate")

Restart ==
  \E currentIndex \in RandomIndices, nextIndex \in RandomIndices :
    /\ Emit(restartGame(State, currentIndex, nextIndex))
    /\ Observe(restartGame(State, currentIndex, nextIndex), FALSE)
    /\ steps' = 0
    /\ lastAction' = "restart"

Next == Tick \/ MoveLeft \/ MoveRight \/ MoveDown \/ Rotate \/ Restart

Spec == Init /\ [][Next]_vars

-----------------------------------------------------------------------------
(* A long game: Math.random always selects the I piece, the player only    *)
(* presses A (left) and S (drop), and the game is followed without a bound  *)
(* on its length until the score would pass LongMaxScore.                  *)

IPieceIndex == 2

InitLong ==
  /\ Init
  /\ currentPiece = getRandomPiece(preparePieces, IPieceIndex)
  /\ nextPiece = getRandomPiece(preparePieces, IPieceIndex)

TickLong ==
  /\ tick(State, IPieceIndex).score <= LongMaxScore
  /\ Play(tick(State, IPieceIndex), "tick")

MoveLeftLong == Play(movePieceLeft(State), "left")

MoveDownLong == Play(movePieceDown(State), "down")

NextLong == TickLong \/ MoveLeftLong \/ MoveDownLong

SpecLong == InitLong /\ [][NextLong]_vars

-----------------------------------------------------------------------------
(* A session of long games: the long game above, with the R key.  Each     *)
(* restartGame draws its two pieces among the enabled ones; the ticks that *)
(* follow select the I piece.                                              *)

RestartSession ==
  \E currentIndex \in RandomIndices, nextIndex \in RandomIndices :
    /\ Emit(restartGame(State, currentIndex, nextIndex))
    /\ Observe(restartGame(State, currentIndex, nextIndex), FALSE)
    /\ steps' = 0
    /\ lastAction' = "restart"

NextSession == TickLong \/ MoveLeftLong \/ MoveDownLong \/ RestartSession

SpecSession == InitLong /\ [][NextSession]_vars

-----------------------------------------------------------------------------
(* A game under the running timer: Math.random always selects the J piece,  *)
(* the game is followed without a bound on its length until the score would *)
(* pass LongMaxScore, and the interval of dynamicTick$ keeps delivering     *)
(* ticks between the key presses.                                           *)

JPieceIndex == 3

InitLive ==
  /\ Init
  /\ currentPiece = getRandomPiece(preparePieces, JPieceIndex)
  /\ nextPiece = getRandomPiece(preparePieces, JPieceIndex)

\* One event of source$, the events not counted.
PlayOn(t, action) ==
  /\ Emit(t)
  /\ Observe(t, action = "tick")
  /\ lastAction' = action
  /\ UNCHANGED steps

\* The score bound stops the game that is followed.
tickCapped == tick(State, JPieceIndex).score > LongMaxScore

TickLive ==
  \E t \in {tick(State, JPieceIndex)} :
    /\ t.score <= LongMaxScore
    /\ PlayOn(t, "tick")

MoveLeftLive == PlayOn(movePieceLeft(State), "left")

MoveRightLive == PlayOn(movePieceRight(State), "right")

MoveDownLive == PlayOn(movePieceDown(State), "down")

RotateLive == PlayOn(rotatePiece(State), "rotate")

NextLive == TickLive \/ MoveLeftLive \/ MoveRightLive \/ MoveDownLive \/ RotateLive

SpecLive == InitLive /\ [][NextLive]_vars /\ WF_vars(TickLive)

-----------------------------------------------------------------------------
(* ScoreAdjustment and eliminateRow on their own: the grid tick hands them  *)
(* (updatedGrid, before the full rows are removed) is drawn row by row from *)
(* RowFills, the score and high score from 0..MaxScoreIn + 1, and the two   *)
(* functions are applied in the order tick applies them.                   *)

\* The largest score ScoreAdjustment is given.
MaxScoreIn == 1

\* The columns (1-based, as createCube takes them) a drawn row has cubes in:
\* none, all, the first, the last, all but the first.
RowFills ==
  { {}, 1..GRID_WIDTH, {1}, {GRID_WIDTH}, 2..GRID_WIDTH }

\* Row y (1-based) with registered cubes in the columns of fill.
rowWith(y, fill) ==
  [x \in 1..GRID_WIDTH |-> IF x \in fill THEN Cell(createCube(x, y), "none") ELSE NULL]

InitGrid ==
  /\ gameEnd = FALSE
  /\ \E fills \in [1..GRID_HEIGHT -> RowFills] :
       gameGrid = [y \in 1..GRID_HEIGHT |-> rowWith(y, fills[y])]
  /\ currentPiece = getRandomPiece(preparePieces, 1)
  /\ nextPiece = getRandomPiece(preparePieces, 1)
  /\ score \in 0..MaxScoreIn
  /\ level = score
  /\ highScore \in score..(MaxScoreIn + 1)
  /\ nextShared = FALSE
  /\ scoreSeen = score
  /\ timerPeriod = tickRate(score)
  /\ timerFired = FALSE
  /\ steps = 0
  /\ lastAction = "init"

\* const { updatedScore, updatedHighScore } = ScoreAdjustment(updatedGrid,
\* s.score, s.highScore); level keeps the score that was passed in.
ApplyScoreAdjustment ==
  /\ lastAction = "init"
  /\ LET adj == ScoreAdjustment(gameGrid, score, highScore)
     IN  /\ score' = adj.updatedScore
         /\ highScore' = adj.updatedHighScore
  /\ lastAction' = "ScoreAdjustment"
  /\ UNCHANGED <<gameEnd, gameGrid, currentPiece, nextPiece, level, nextShared, steps>>
  /\ UNCHANGED timerVars

\* const stateAfterElimination = eliminateRow(updatedState)
ApplyEliminateRow ==
  /\ Emit(eliminateRow(State))
  /\ lastAction' = "eliminateRow"
  /\ UNCHANGED steps
  /\ UNCHANGED timerVars

NextGrid == ApplyScoreAdjustment \/ ApplyEliminateRow

SpecGrid == InitGrid /\ [][NextGrid]_vars

-----------------------------------------------------------------------------
(* The tick source on its own: the scores of emitted states are the inputs *)

\* The largest score of an emitted state.
MaxTimerScore == 12

\* The subscriber of source$ receives a state with score sc and renderHUD
\* passes the score to scoreSubject.
ObserveScore ==
  \E sc \in 0..MaxTimerScore, byTick \in BOOLEAN :
    LET s == [State EXCEPT !.score = sc, !.level = sc,
                           !.highScore = IF sc > @ THEN sc ELSE @]
    IN  /\ Emit(s)
        /\ Observe(s, byTick)
        /\ lastAction' = IF byTick THEN "tick" ELSE "key"
        /\ UNCHANGED steps

NextTimer == ObserveScore

SpecTimer == Init /\ [][NextTimer]_vars

-----------------------------------------------------------------------------
(* Claims *)

\* Whether the grid has a cube at (column, row); no cell exists outside it.
occupiedAt(grid, column, row) ==
  /\ column >= 0 /\ column < GRID_WIDTH
  /\ row >= 0 /\ row < GRID_HEIGHT
  /\ cellAt(grid, column, row) # NULL

\* The cells (column, row) of the grid that hold a cube.
occupiedCells(grid) ==
  {cell \in (0..(GRID_WIDTH - 1)) \X (0..(GRID_HEIGHT - 1)) :
     cellAt(grid, cell[1], cell[2]) # NULL}

\* The cubes registered in the grid, without the heap bookkeeping.
gridCubes(grid) ==
  [r \in 1..Len(grid) |-> [c \in 1..Len(grid[r]) |->
     IF grid[r][c] = NULL THEN NULL ELSE <<cubeOf(grid[r][c])>>]]

KeyActions == {"left", "right", "down", "rotate"}

\* C1: game over is terminal: a state with gameEnd = true is followed by a
\* state with gameEnd = true, whatever tick, move, hard-drop or rotate
\* transition is applied; only restartGame makes gameEnd false again.
C1_GameOverIsTerminal ==
  [][(gameEnd /\ lastAction' # "restart") => gameEnd']_vars

\* C2: post-game-over ticks are inert: a tick applied to a state with
\* gameEnd = true leaves currentPiece locked at the same cells and leaves the
\* grid, score, level, highScore, nextPiece and gameEnd as they were.
C2_PostGameOverTickInert ==
  [][(gameEnd /\ lastAction' = "tick") =>
       /\ currentPiece'.static
       /\ Cells(currentPiece') = Cells(currentPiece)
       /\ occupiedCells(gameGrid') = occupiedCells(gameGrid)
       /\ score' = score /\ level' = level /\ highScore' = highScore
       /\ nextPiece' = nextPiece
       /\ gameEnd']_vars

\* C3: while gameEnd is true the key transitions (left, right, hard drop,
\* rotate) return the state unchanged: same currentPiece cells and static flag.
C3_KeysInertAfterGameOver ==
  [][(gameEnd /\ lastAction' \in KeyActions) =>
       /\ Cells(currentPiece') = Cells(currentPiece)
       /\ currentPiece'.static = currentPiece.static
       /\ occupiedCells(gameGrid') = occupiedCells(gameGrid)
       /\ gameEnd']_vars

\* C4: every emitted state is self-consistent: no block of currentPiece lies
\* on an occupied grid cell.
C4_PieceNeverOverlapsGrid ==
  \A i \in 1..Len(currentPiece.cubeList) :
    ~occupiedAt(gameGrid, Cells(currentPiece)[i][1], Cells(currentPiece)[i][2])

\* C5: currentPiece is never left locked while the game is running: in every
\* emitted state with gameEnd = false, currentPiece.static is false.
C5_RunningPieceNotStatic ==
  ~gameEnd => ~currentPiece.static

\* C6: a piece locks only where it rests: whenever a tick writes currentPiece
\* into the grid, that tick did not move the piece and the piece has a
\* down-collision, at the cells written, in the grid before the tick.
C6_LocksOnlyWhereItRests ==
  [][(lastAction' = "tick" /\ descend(currentPiece, gameGrid).static) =>
       /\ Cells(descend(currentPiece, gameGrid)) = Cells(currentPiece)
       /\ isCollision(descend(currentPiece, gameGrid), gameGrid, 0, 1)]_vars

\* The piece rotated 90 degrees clockwise (columns to the right, rows
\* downward) about the cell of its first block: offset (dx, dy) from the
\* first block becomes offset (-dy, dx).
clockwiseCells(piece) ==
  LET first == Cells(piece)[1]
  IN  [i \in 1..Len(piece.cubeList) |->
         <<first[1] - (Cells(piece)[i][2] - first[2]),
           first[2] + (Cells(piece)[i][1] - first[1])>>]

\* C7: the candidate of rotatePiece is the piece rotated 90 degrees clockwise
\* about the centre of its first block: the first block keeps its cell and a
\* block at offset (dx, dy) from it ends at offset (-dy, dx).
C7_CandidateIsClockwiseRotation ==
  Cells(rotatePieceTemporarily(currentPiece)) = clockwiseCells(currentPiece)

\* C8: rotatePiece replaces currentPiece by the rotated candidate iff the shape
\* is not "O" and the candidate has no collision at offsets (-1,0), (1,0) and
\* (0,1); otherwise it returns the input state unchanged; it never changes the
\* grid, score, level, highScore, gameEnd or nextPiece.
C8_RotatePieceAcceptance ==
  [][lastAction' = "rotate" =>
       LET candidate == rotatePieceTemporarily(currentPiece)
           accept == /\ currentPiece.shape # "O"
                     /\ ~isCollision(candidate, gameGrid, -1, 0)
                     /\ ~isCollision(candidate, gameGrid, 1, 0)
                     /\ ~isCollision(candidate, gameGrid, 0, 1)
       IN  /\ (currentPiece' = candidate) <=> accept
           /\ ~accept => State' = State
           /\ gridCubes(gameGrid') = gridCubes(gameGrid)
           /\ score' = score /\ level' = level /\ highScore' = highScore
           /\ gameEnd' = gameEnd
           /\ nextPiece' = nextPiece]_vars

\* The offsets of the blocks of a piece from its first block.
blockOffsets(piece) ==
  [i \in 1..Len(piece.cubeList) |->
     <<Cells(piece)[i][1] - Cells(piece)[1][1], Cells(piece)[i][2] - Cells(piece)[1][2]>>]

catalogPiece(shape) ==
  preparePieces[CHOOSE k \in 1..Len(preparePieces) : preparePieces[k].shape = shape]

\* A state produced by rotatePiece in which currentPiece is not in the
\* orientation of its catalog entry: a rotation was accepted.
C8_Witness ==
  /\ lastAction = "rotate"
  /\ currentPiece.shape # "O"
  /\ blockOffsets(currentPiece) # blockOffsets(catalogPiece(currentPiece.shape))

\* The pieces and offsets isCollision is evaluated on in the claims: the
\* current piece, the candidate of its rotation and the next piece, moved by
\* at most one cell in each direction.
probePieces == {currentPiece, rotatePieceTemporarily(currentPiece), nextPiece}

probeOffsets == (-1..1) \X (-1..1)

\* Some block of the piece, moved by (dx, dy), has its row above the grid.
movesAboveGrid(piece, dy) ==
  \E i \in 1..Len(piece.cubeList) : Cells(piece)[i][2] + dy < 0

\* Some block of the piece, moved by (dx, dy), leaves the grid sideways or
\* below, or lands on an occupied cell.
leavesOrLands(piece, grid, dx, dy) ==
  \E i \in 1..Len(piece.cubeList) :
    LET column == Cells(piece)[i][1] + dx
        row == Cells(piece)[i][2] + dy
    IN  \/ column < 0
        \/ column >= GRID_WIDTH
        \/ row >= GRID_HEIGHT
        \/ occupiedAt(grid, column, row)

\* C9 (as claimed): isCollision(piece, grid, dx, dy) is true iff some block,
\* moved by (dx, dy), has column < 0 or column >= GRID_WIDTH, or row >=
\* GRID_HEIGHT, or lands on an occupied cell; a negative row is, by that
\* alone, not a collision.
C9_CollisionIgnoresNegativeRow ==
  \A piece \in probePieces : \A offset \in probeOffsets :
    isCollision(piece, gameGrid, offset[1], offset[2])
      <=> leavesOrLands(piece, gameGrid, offset[1], offset[2])

\* C9 (amended): isCollision(piece, grid, dx, dy) is true iff some block,
\* moved by (dx, dy), has column < 0 or column >= GRID_WIDTH, or row < 0 or
\* row >= GRID_HEIGHT, or lands on an occupied cell.
C9_CollisionIffLeavesGridOrLands ==
  \A piece \in probePieces : \A offset \in probeOffsets :
    isCollision(piece, gameGrid, offset[1], offset[2])
      <=> \/ leavesOrLands(piece, gameGrid, offset[1], offset[2])
          \/ movesAboveGrid(piece, offset[2])

\* rotatePiece has just rejected a candidate whose only collision, at the
\* offsets it is checked at, is a block above row 0.
C9_Witness ==
  /\ lastAction = "rotate"
  /\ currentPiece.shape # "O"
  /\ LET candidate == rotatePieceTemporarily(currentPiece)
     IN  /\ isCollision(candidate, gameGrid, -1, 0)
         /\ movesAboveGrid(candidate, 0)
         /\ ~leavesOrLands(candidate, gameGrid, -1, 0)
         /\ ~leavesOrLands(candidate, gameGrid, 1, 0)
         /\ ~leavesOrLands(candidate, gameGrid, 0, 1)

\* C10: movePieceLeft (movePieceRight) moves every block of currentPiece one
\* column left (right), rows unchanged, iff no block is in column 0 (column
\* GRID_WIDTH - 1) and isCollision at offset (-1,0) ((1,0)) is false;
\* otherwise the returned state equals the input state.
C10_MoveLeftRight ==
  [][/\ lastAction' = "left" =>
          LET allowed ==
                /\ \A i \in 1..Len(currentPiece.cubeList) : Cells(currentPiece)[i][1] # 0
                /\ ~isCollision(currentPiece, gameGrid, -1, 0)
          IN  IF allowed
              THEN /\ Len(currentPiece'.cubeList) = Len(currentPiece.cubeList)
                   /\ \A i \in 1..Len(currentPiece.cubeList) :
                        Cells(currentPiece')[i] =
                          <<Cells(currentPiece)[i][1] - 1, Cells(currentPiece)[i][2]>>
                   /\ currentPiece'.static = currentPiece.static
                   /\ currentPiece'.shape = currentPiece.shape
              ELSE State' = State
     /\ lastAction' = "right" =>
          LET allowed ==
                /\ \A i \in 1..Len(currentPiece.cubeList) :
                     Cells(currentPiece)[i][1] # GRID_WIDTH - 1
                /\ ~isCollision(currentPiece, gameGrid, 1, 0)
          IN  IF allowed
              THEN /\ Len(currentPiece'.cubeList) = Len(currentPiece.cubeList)
                   /\ \A i \in 1..Len(currentPiece.cubeList) :
                        Cells(currentPiece')[i] =
                          <<Cells(currentPiece)[i][1] + 1, Cells(currentPiece)[i][2]>>
                   /\ currentPiece'.static = currentPiece.static
                   /\ currentPiece'.shape = currentPiece.shape
              ELSE State' = State]_vars

\* movePieceLeft has just moved a piece off its spawn column, next to cubes
\* of the grid that stop a further move to the left.
C10_Witness ==
  /\ lastAction = "left"
  /\ Cells(currentPiece)[1][1] < Cells(catalogPiece(currentPiece.shape))[1][1]
  /\ \A i \in 1..Len(currentPiece.cubeList) : Cells(currentPiece)[i][1] > 0
  /\ isCollision(currentPiece, gameGrid, -1, 0)

\* Whether the transition moved some block of currentPiece.
pieceMoved(before, after) == Cells(after.currentPiece) # Cells(before.currentPiece)

\* C11: when movePieceLeft succeeds and the following movePieceRight succeeds,
\* the piece is back at the block positions it had; and movePieceLeft on a
\* piece with a block in column 0 is a no-op, however often it is applied.
C11_LeftThenRightRestores ==
  LET movedLeft == movePieceLeft(State)
      movedBack == movePieceRight(movedLeft)
  IN  /\ (pieceMoved(State, movedLeft) /\ pieceMoved(movedLeft, movedBack))
           => Cells(movedBack.currentPiece) = Cells(currentPiece)
      /\ (\E i \in 1..Len(currentPiece.cubeList) : Cells(currentPiece)[i][1] = 0)
           => /\ movePieceLeft(State) = State
              /\ movePieceLeft(movePieceLeft(State)) = State

\* movePieceLeft has just been applied, and from here one more movePieceLeft
\* brings the piece to column 0, where a further one is refused, and a
\* movePieceRight brings it back.
C11_Witness ==
  LET movedLeft == movePieceLeft(State)
      movedBack == movePieceRight(movedLeft)
  IN  /\ lastAction = "left"
      /\ pieceMoved(State, movedLeft)
      /\ pieceMoved(movedLeft, movedBack)
      /\ \E i \in 1..Len(movedLeft.currentPiece.cubeList) :
           Cells(movedLeft.currentPiece)[i][1] = 0
      /\ movePieceLeft(movedLeft) = movedLeft

\* The number of descend calls movePieceDown makes on a state, followed for
\* at most `fuel` calls (fuel + 1 stands for more than fuel).
RECURSIVE descendCalls(_, _)
descendCalls(state, fuel) ==
  LET updated == afterDescend(state)
  IN  IF fuel = 0 THEN 1
      ELSE IF isCollisionDown(updated.currentPiece, updated.gameGrid) THEN 1
      ELSE 1 + descendCalls(updated, fuel - 1)

\* C12: movePieceDown ends after at most GRID_HEIGHT descend steps and returns
\* a state whose currentPiece has a down-collision.
C12_HardDropTerminatesBlocked ==
  [][lastAction' = "down" =>
       /\ descendCalls(State, GRID_HEIGHT) <= GRID_HEIGHT
       /\ isCollision(currentPiece', gameGrid', 0, 1)]_vars

\* movePieceDown has just lowered a piece by two rows or more onto cubes of
\* the grid, above the bottom row.
C12_Witness ==
  /\ lastAction = "down"
  /\ Cells(currentPiece)[1][2] >= Cells(catalogPiece(currentPiece.shape))[1][2] + 2
  /\ \A i \in 1..Len(currentPiece.cubeList) : Cells(currentPiece)[i][2] < GRID_HEIGHT - 1
  /\ isCollision(currentPiece, gameGrid, 0, 1)

\* The piece after n one-row descend steps, each taken while no down-collision
\* exists (the grid is read, never written).
RECURSIVE descendUntilBlocked(_, _, _)
descendUntilBlocked(piece, grid, n) ==
  IF n = 0 \/ isCollision(piece, grid, 0, 1)
  THEN piece
  ELSE descendUntilBlocked([piece EXCEPT !.cubeList = shiftCubes(@, 0, BlockHEIGHT)],
                           grid, n - 1)

\* C13: hard drop equals repeated single-row descent: the blocks end where
\* one-row descend steps applied until a down-collision put them (columns
\* unchanged, every block lowered by the same number of rows), and the grid,
\* score, level, highScore, gameEnd and nextPiece are unchanged.
C13_HardDropIsRepeatedDescend ==
  [][lastAction' = "down" =>
       /\ Cells(currentPiece') =
            Cells(descendUntilBlocked(currentPiece, gameGrid, GRID_HEIGHT))
       /\ \E rows \in 0..GRID_HEIGHT :
            \A i \in 1..Len(currentPiece.cubeList) :
              Cells(currentPiece')[i] =
                <<Cells(currentPiece)[i][1], Cells(currentPiece)[i][2] + rows>>
       /\ occupiedCells(gameGrid') = occupiedCells(gameGrid)
       /\ score' = score /\ level' = level /\ highScore' = highScore
       /\ gameEnd' = gameEnd
       /\ nextPiece' = nextPiece]_vars

\* The rows (0-based) of the grid in which every cell is occupied.
fullRows(grid) ==
  {row \in 0..(GRID_HEIGHT - 1) :
     \A column \in 0..(GRID_WIDTH - 1) : occupiedAt(grid, column, row)}

maxOf(a, b) == IF a >= b THEN a ELSE b

\* C14: ScoreAdjustment returns the score plus the number of rows of the grid
\* in which every cell is occupied (one point per full row, no multi-line
\* bonus) and, as high score, the larger of that and the old high score.
C14_ScoreAdjustment ==
  [][lastAction' = "ScoreAdjustment" =>
       /\ score' = score + Cardinality(fullRows(gameGrid))
       /\ highScore' = maxOf(score', highScore)]_vars

\* ScoreAdjustment has just counted two or more full rows at once.
C14_Witness ==
  /\ lastAction = "ScoreAdjustment"
  /\ Cardinality(fullRows(gameGrid)) >= 2
  /\ score = level + Cardinality(fullRows(gameGrid))

\* The states the gameplay transitions (tick with any draw, the two moves,
\* the hard drop, the rotation) return on the current state.
gameplayResults ==
  {tick(State, randomIndex) : randomIndex \in RandomIndices}
    \cup {movePieceLeft(State), movePieceRight(State), movePieceDown(State),
          rotatePiece(State)}

\* C15: score and level never decrease: every tick, move, rotate and hard-drop
\* transition from a reachable state returns a score >= the old score and a
\* level >= the old level.
C15_ScoreLevelMonotone ==
  /\ [](\A t \in gameplayResults : t.score >= score /\ t.level >= level)
  /\ [][lastAction' # "restart" => (score' >= score /\ level' >= level)]_vars

\* A tick has just been applied in a game whose score it or an earlier tick
\* raised, and the next tick would raise it again.
C15_Witness ==
  /\ lastAction = "tick"
  /\ score > 0
  /\ tick(State, IPieceIndex).score > score

\* C16: highScore is the running maximum of score: highScore >= score in
\* every reachable state, and highScore never decreases across a transition,
\* restartGame included.
C16_HighScoreRunningMax ==
  /\ [](highScore >= score)
  /\ [][highScore' >= highScore]_vars

\* restartGame has just reset the score of a game that had cleared rows and
\* kept its high score.
C16_Witness ==
  /\ lastAction = "restart"
  /\ score = 0
  /\ highScore > 0

\* A piece as the catalog holds it: unlocked, at its spawn cells.
isCatalogPiece(piece) ==
  \E k \in 1..Len(preparePieces) : piece = preparePieces[k]

\* C17: restartGame applied to any state yields gameEnd = false, a grid with
\* every cell empty, score = 0, level = 0, and a currentPiece and nextPiece
\* that are unlocked catalog pieces at their spawn cells.
C17_RestartResets ==
  [][lastAction' = "restart" =>
       /\ gameEnd' = FALSE
       /\ Len(gameGrid') = GRID_HEIGHT
       /\ \A r \in 1..GRID_HEIGHT :
            /\ Len(gameGrid'[r]) = GRID_WIDTH
            /\ \A c \in 1..GRID_WIDTH : gameGrid'[r][c] = NULL
       /\ score' = 0
       /\ level' = 0
       /\ isCatalogPiece(currentPiece') /\ ~currentPiece'.static
       /\ isCatalogPiece(nextPiece') /\ ~nextPiece'.static]_vars

\* restartGame has just been applied after a game that cleared rows, and it
\* drew two different pieces.
C17_Witness ==
  /\ lastAction = "restart"
  /\ highScore > 0
  /\ currentPiece.shape # nextPiece.shape
  /\ occupiedCells(gameGrid) = {}

\* C18: piece replacement happens exactly on lock: a tick replaces
\* currentPiece iff, after its descend step, the piece is locked and the
\* recomputed gameEnd is false; then the new currentPiece is the previous
\* nextPiece and nextPiece is a freshly constructed catalog piece.  In every
\* other tick, and in every move, rotate and hard-drop transition, the shape
\* of currentPiece and the nextPiece are unchanged.
C18_ReplacementExactlyOnLock ==
  [][/\ lastAction' = "tick" =>
          LET locked == descend(currentPiece, gameGrid).static
              replaced == locked /\ ~gameEnd'
          IN  IF replaced
              THEN /\ currentPiece' = nextPiece
                   /\ isCatalogPiece(nextPiece')
              ELSE /\ currentPiece'.shape = currentPiece.shape
                   /\ Cells(currentPiece') = Cells(descend(currentPiece, gameGrid))
                   /\ nextPiece' = nextPiece
     /\ lastAction' \in KeyActions =>
          /\ currentPiece'.shape = currentPiece.shape
          /\ nextPiece' = nextPiece]_vars

\* The columns (1-based) of the occupied cells of a row.
occupiedColumns(row) == {c \in 1..Len(row) : row[c] # NULL}

\* The rows of a grid as sets of occupied columns, top to bottom.
occupancyRows(grid) == [r \in 1..Len(grid) |-> occupiedColumns(grid[r])]

allColumns == 1..GRID_WIDTH

\* C19: eliminateRow removes exactly the rows in which every cell is occupied,
\* puts as many all-empty rows at the top, keeps the other rows in their
\* order with their occupancy unchanged, and returns a grid of the same width
\* and height in which no row is fully occupied.
C19_EliminateRow ==
  [][lastAction' = "eliminateRow" =>
       LET before == occupancyRows(gameGrid)
           after == occupancyRows(gameGrid')
           cleared == Cardinality({r \in 1..Len(before) : before[r] = allColumns})
           kept == SelectSeq(before, LAMBDA columns : columns # allColumns)
       IN  /\ Len(gameGrid') = GRID_HEIGHT
           /\ \A r \in 1..GRID_HEIGHT : Len(gameGrid'[r]) = GRID_WIDTH
           /\ \A r \in 1..cleared : after[r] = {}
           /\ \A k \in 1..Len(kept) : after[cleared + k] = kept[k]
           /\ cleared + Len(kept) = GRID_HEIGHT
           /\ \A r \in 1..GRID_HEIGHT : after[r] # allColumns]_vars

\* eliminateRow has just removed the rows ScoreAdjustment counted, and left
\* two rows of different occupancy under the new empty rows.
C19_Witness ==
  /\ lastAction = "eliminateRow"
  /\ score > level
  /\ \A r \in 1..(score - level) : occupiedColumns(gameGrid[r]) = {}
  /\ \E r \in 1..(GRID_HEIGHT - 1) :
       /\ occupiedColumns(gameGrid[r]) # {}
       /\ occupiedColumns(gameGrid[r + 1]) # {}
       /\ occupiedColumns(gameGrid[r]) # occupiedColumns(gameGrid[r + 1])

\* C20: eliminateRow is idempotent: it returns a grid with no fully occupied
\* row unchanged, and applied to its own result it returns that result.
C20_EliminateRowIdempotent ==
  LET once == eliminateRow(State)
      twice == eliminateRow(once)
  IN  /\ (fullRows(gameGrid) = {}) => once.gameGrid = gameGrid
      /\ twice.gameGrid = once.gameGrid

\* eliminateRow has just removed full rows from a grid with other cubes, and
\* a second application finds nothing to remove.
C20_Witness ==
  /\ lastAction = "eliminateRow"
  /\ score > level
  /\ fullRows(gameGrid) = {}
  /\ occupiedCells(gameGrid) # {}
  /\ eliminateRow(State).gameGrid = gameGrid

\* The occupied cell at (column, row) holds a cube whose stored x is that of
\* the column.
storedXAgrees(grid, column, row) ==
  cubeOf(cellAt(grid, column, row)).x = BlockWIDTH * column

\* The occupied cell at (column, row) holds a cube whose stored y is that of
\* the row.
storedYAgrees(grid, column, row) ==
  cubeOf(cellAt(grid, column, row)).y = BlockHEIGHT * row

C22_TickPeriod ==
  /\ [](/\ timerPeriod = maxOf(100, 500 - 40 * scoreSeen)
        /\ (scoreSeen = 0 => timerPeriod = 500)
        /\ timerPeriod >= 100
        /\ timerPeriod <= 500
        /\ (scoreSeen >= 10 => timerPeriod = 100))
  /\ [][scoreSeen' >= scoreSeen => timerPeriod' <= timerPeriod]_vars

\* A timer started with a score above 10.
C22_Witness ==
  /\ lastAction = "tick"
  /\ scoreSeen > 10
  /\ timerPeriod = 100

\* C23: an emitted state whose score differs from the score emitted before
\* it replaces the running timer by a new one with the period of the new
\* score, so every tick is delivered by a timer with the period of the
\* current score; an emitted state with the same score leaves the running
\* timer as it is.
C23_TimerFollowsScore ==
  /\ [](timerPeriod = tickRate(score))
  /\ [][/\ score' # score => timerPeriod' = tickRate(score') /\ ~timerFired'
        /\ score' = score =>
             /\ timerPeriod' = timerPeriod
             /\ timerFired' = (timerFired \/ lastAction' = "tick")]_vars

\* A key press left a timer running that had delivered a tick and had been
\* started with a score above 0.
C23_Witness ==
  /\ lastAction \in KeyActions
  /\ score > 0
  /\ timerFired
  /\ timerPeriod < TICK_RATE_MS

\* The state object s as it reads once tick(s) has returned: tick builds new
\* state, piece and grid objects, and descend has moved the cubes that s
\* reaches through its pieces and its grid.
readAfterTick(s) ==
  [afterDescend(s) EXCEPT !.currentPiece.static = s.currentPiece.static]

\* The state object s as it reads once movePieceDown(s) has returned.
readAfterMovePieceDown(s) ==
  [movePieceDown(s) EXCEPT !.currentPiece.static = s.currentPiece.static]

\* C24: tick and movePieceDown do not change their input: read through the
\* state s they were given, the blocks and the static flag of currentPiece,
\* the blocks of nextPiece and the cells of the grid are after the call what
\* they were before it.
C24_TransitionsKeepInput ==
  \A after \in {readAfterTick(State), readAfterMovePieceDown(State)} :
    /\ after.currentPiece = currentPiece
    /\ after.nextPiece.cubeList = nextPiece.cubeList
    /\ after.gameGrid = gameGrid

\* C25: in every reachable state each block of currentPiece lies inside the
\* grid: its column is in 0..GRID_WIDTH-1 and its row in 0..GRID_HEIGHT-1.
C25_PieceInsideGrid ==
  \A cell \in CellSet(currentPiece) :
    /\ 0 <= cell[1] /\ cell[1] < GRID_WIDTH
    /\ 0 <= cell[2] /\ cell[2] < GRID_HEIGHT

\* A rotation has brought the piece against the top row and the left wall.
C25_Witness ==
  /\ lastAction = "rotate"
  /\ \E cell \in CellSet(currentPiece) : cell[2] = 0
  /\ \E cell \in CellSet(currentPiece) : cell[1] = 0
  /\ Cardinality({cell[1] : cell \in CellSet(currentPiece)}) = 1

\* C26: the grid always has exactly GRID_HEIGHT rows, each of exactly
\* GRID_WIDTH cells.
C26_GridDimensions ==
  /\ Len(gameGrid) = GRID_HEIGHT
  /\ \A r \in 1..Len(gameGrid) : Len(gameGrid[r]) = GRID_WIDTH

\* A tick has removed full rows and the grid has cubes left in it.
C26_Witness ==
  /\ lastAction = "tick"
  /\ score > 0
  /\ occupiedCells(gameGrid) # {}

\* The grid of a tick once the piece is registered, before eliminateRow.
registeredGrid(s) ==
  LET d == afterDescend(s)
  IN  registerGameGrid(d.gameGrid, d.currentPiece)

\* C27: the gameEnd a tick returns is checkGameOver of the grid with the
\* piece registered and the full rows still in it: a tick whose locking
\* piece has a block in row 0 and completes a row returns gameEnd = true.
C27_GameEndBeforeElimination ==
  [][lastAction' = "tick" =>
       /\ gameEnd' = checkGameOver(registeredGrid(State))
       /\ (/\ afterDescend(State).currentPiece.static
           /\ \E cell \in CellSet(afterDescend(State).currentPiece) : cell[2] = 0
           /\ filledRowCount(registeredGrid(State)) > 0
           => gameEnd')]_vars

\* A tick has locked a piece with a block in row 0, has removed a full row
\* and has ended the game.
C27_Witness ==
  /\ lastAction = "tick"
  /\ gameEnd
  /\ score > 0
  /\ currentPiece.static
  /\ \E cell \in CellSet(currentPiece) : cell[2] = 0
  /\ ~checkGameOver(gameGrid)

\* A tick finds the game running and the unlocked piece free to descend.
plainDescent ==
  /\ lastAction' = "tick"
  /\ ~gameEnd
  /\ ~currentPiece.static
  /\ ~isCollisionDown(currentPiece, gameGrid)

\* What a plain descent does to the piece: every block one row lower in its
\* column, the piece still unlocked.
loweredOneRow ==
  /\ Cells(currentPiece') =
       [i \in 1..Len(currentPiece.cubeList) |->
          <<Cells(currentPiece)[i][1], Cells(currentPiece)[i][2] + 1>>]
  /\ currentPiece'.shape = currentPiece.shape
  /\ ~currentPiece'.static

\* C28: a tick on a state with gameEnd = false whose unlocked piece is free
\* to descend lowers every block of the piece by one row in its column and
\* leaves the grid, score, level, highScore, gameEnd, nextPiece and the
\* static flag as they were.
C28_PlainDescentFrame ==
  [][plainDescent =>
       /\ loweredOneRow
       /\ gridCubes(gameGrid') = gridCubes(gameGrid)
       /\ score' = score /\ level' = level /\ highScore' = highScore
       /\ gameEnd' = gameEnd
       /\ nextPiece' = nextPiece]_vars

\* C28 with the nextPiece that shares its blocks with currentPiece set aside.
C28_PlainDescentFrameUnshared ==
  [][plainDescent =>
       /\ loweredOneRow
       /\ gridCubes(gameGrid') = gridCubes(gameGrid)
       /\ score' = score /\ level' = level /\ highScore' = highScore
       /\ gameEnd' = gameEnd
       /\ (~nextShared => nextPiece' = nextPiece)]_vars

\* C29: nextPiece is independent of currentPiece: no tick, hard drop, move
\* or rotation changes a block of nextPiece, so nextPiece always sits at the
\* spawn cells of its catalog piece and every piece that becomes currentPiece
\* starts there.
C29_NextPieceAtSpawn ==
  /\ [](isCatalogPiece(nextPiece))
  /\ [][LET replaced == /\ lastAction' = "tick"
                        /\ descend(currentPiece, gameGrid).static
                        /\ ~gameEnd'
        IN  /\ (lastAction' # "restart" /\ ~replaced)
                 => nextPiece'.cubeList = nextPiece.cubeList
            /\ replaced => isCatalogPiece(currentPiece')]_vars

\* The last tick registered the piece it found: the piece stays, locked,
\* when the game ended, and otherwise the promoted piece stands at its spawn
\* cells, where no piece stands after a tick that lowered it.
pieceRegistered ==
  /\ lastAction = "tick"
  /\ (currentPiece.static \/ isCatalogPiece(currentPiece))

\* C30: while the timer keeps delivering ticks, every piece is eventually
\* registered in the grid: from every state with gameEnd = false a tick that
\* registers the current piece follows, whatever key presses come between
\* the ticks.
C30_EveryPieceLocks ==
  [](~gameEnd /\ ~pieceRegistered => <>(pieceRegistered \/ tickCapped))

\* The piece four accepted rotations in a row produce: each accepted rotation
\* stores the candidate of rotatePieceTemporarily.
fourRotations(piece) ==
  rotatePieceTemporarily(rotatePieceTemporarily(
    rotatePieceTemporarily(rotatePieceTemporarily(piece))))

C31_FourRotationsLift ==
  currentPiece.shape # "O" =>
    Cells(fourRotations(currentPiece)) =
      [i \in 1..Len(currentPiece.cubeList) |->
         <<Cells(currentPiece)[i][1], Cells(currentPiece)[i][2] - 4>>]

\* C32: an accepted rotation is legal: when rotatePiece changes currentPiece,
\* no block of the rotated piece lies on an occupied cell of the grid.
C32_AcceptedRotationIsLegal ==
  [][(lastAction' = "rotate" /\ Cells(currentPiece') # Cells(currentPiece)) =>
       \A cell \in CellSet(currentPiece') : ~occupiedAt(gameGrid', cell[1], cell[2])]_vars

-----------------------------------------------------------------------------
(* rotatePiece under an overhang.  The grid holds one piece that locked     *)
(* above free cells, as a piece does that the S key made static on a stack, *)
(* that A or D slid off the stack and that the next tick locked one row     *)
(* lower; the current piece has come down beside it, in any orientation.    *)

insideGrid(piece) ==
  \A cell \in CellSet(piece) :
    /\ cell[1] >= 0 /\ cell[1] < GRID_WIDTH
    /\ cell[2] >= 0 /\ cell[2] < GRID_HEIGHT

RECURSIVE turned(_, _)
\* The piece after turns accepted rotations.
turned(piece, turns) ==
  IF turns = 0 THEN piece ELSE rotatePieceTemporarily(turned(piece, turns - 1))

\* The piece moved by columns and rows.
placed(piece, columns, rows) ==
  [piece EXCEPT !.cubeList = shiftCubes(@, columns * BlockWIDTH, rows * BlockHEIGHT)]

\* Catalog pieces locked in mid-air below row 0.
hangingPieces ==
  {q \in {placed(getRandomPiece(preparePieces, i), columns, rows) :
            i \in RandomIndices, columns \in (1 - GRID_WIDTH)..(GRID_WIDTH - 1),
            rows \in 1..(GRID_HEIGHT - 1)} :
     /\ insideGrid(q)
     /\ \A cell \in CellSet(q) : cell[2] < GRID_HEIGHT - 1}

\* The positions of a falling piece.
fallingPieces ==
  {p \in {placed(turned(getRandomPiece(preparePieces, i), turns), columns, rows) :
            i \in RandomIndices, turns \in 0..3,
            columns \in (1 - GRID_WIDTH)..(GRID_WIDTH - 1),
            rows \in 0..(GRID_HEIGHT + 2)} :
     insideGrid(p)}

InitRotate ==
  /\ gameEnd = FALSE
  /\ \E q \in hangingPieces :
       gameGrid = promoteOwners(registerGameGrid(emptyGrid, [q EXCEPT !.static = TRUE]), FALSE)
  /\ \E p \in fallingPieces :
       /\ CellSet(p) \cap occupiedCells(gameGrid) = {}
       /\ currentPiece = p
  /\ \E j \in RandomIndices : nextPiece = getRandomPiece(preparePieces, j)
  /\ level = 0
  /\ score = 0
  /\ highScore = 0
  /\ nextShared = FALSE
  /\ scoreSeen = 0
  /\ timerPeriod = tickRate(0)
  /\ timerFired = FALSE
  /\ steps = 0
  /\ lastAction = "init"

NextRotate == MoveLeftLive \/ MoveRightLive \/ RotateLive

SpecRotate == InitRotate /\ [][NextRotate]_vars

\* Row 0 of the grid holds a cube.
rowZeroOccupied(grid) == \E column \in 0..(GRID_WIDTH - 1) : occupiedAt(grid, column, 0)

\* C33: the game-over flag matches the grid: in every emitted state gameEnd
\* is true exactly when row 0 of the emitted grid holds a cube.
C33_GameEndMatchesGrid == gameEnd <=> rowZeroOccupied(gameGrid)

\* What the code keeps: a cube in row 0 of the emitted grid implies gameEnd,
\* and a tick that eliminates no row returns gameEnd exactly when row 0 of
\* the grid it returns holds a cube.
C33_RowZeroImpliesGameEnd ==
  /\ [](rowZeroOccupied(gameGrid) => gameEnd)
  /\ [][(lastAction' = "tick" /\ filledRowCount(registeredGrid(State)) = 0) =>
          (gameEnd' <=> rowZeroOccupied(gameGrid'))]_vars

\* A tick has locked a piece with a block in row 0, no row was full, and the
\* game is over with the cube still in row 0.
C33_Witness ==
  /\ lastAction = "tick"
  /\ gameEnd
  /\ rowZeroOccupied(gameGrid)
  /\ currentPiece.static
  /\ score = 0

\* The number of rows of the grid without an empty cell.
fullRowCount(grid) == Cardinality(fullRows(grid))

\* C34: score counts cleared rows: a tick raises score by the number of full
\* rows of the grid with the piece registered, which are the rows eliminateRow
\* removes in that tick, and leaves no full row to be counted again; the keys
\* leave score and the full rows alone and restartGame starts from 0.
C34_ScoreCountsClearedRows ==
  [][/\ lastAction' = "tick" =>
          /\ score' = score + fullRowCount(registeredGrid(State))
          /\ fullRowCount(gameGrid') = 0
          /\ Cardinality(occupiedCells(gameGrid')) =
               Cardinality(occupiedCells(registeredGrid(State)))
                 - GRID_WIDTH * fullRowCount(registeredGrid(State))
     /\ lastAction' \in KeyActions =>
          /\ score' = score
          /\ fullRowCount(gameGrid') = fullRowCount(gameGrid)
     /\ lastAction' = "restart" => score' = 0 /\ fullRowCount(gameGrid') = 0]_vars

\* A tick has removed two rows at once from a running game.
C34_Witness ==
  /\ lastAction = "tick"
  /\ ~gameEnd
  /\ score >= 2
  /\ occupiedCells(gameGrid) # {}

\* C35: no emitted state contains a fully occupied row: every row of the
\* grid has at least one empty cell.
C35_NoFullRow ==
  \A row \in 0..(GRID_HEIGHT - 1) :
    \E column \in 0..(GRID_WIDTH - 1) : ~occupiedAt(gameGrid, column, row)

\* A tick has removed a full row and the row lowered into its place lacks
\* one cube.
C35_Witness ==
  /\ lastAction = "tick"
  /\ score = 1
  /\ \E row \in 0..(GRID_HEIGHT - 1) :
       Cardinality({column \in 0..(GRID_WIDTH - 1) : occupiedAt(gameGrid, column, row)})
         = GRID_WIDTH - 1

\* C36: the key transitions touch only the current piece: movePieceLeft,
\* movePieceRight, movePieceDown and rotatePiece change neither the grid nor
\* score, level, highScore, gameEnd or nextPiece, and currentPiece keeps its
\* shape tag and four blocks on four distinct cells.
C36_KeysTouchOnlyCurrentPiece ==
  [][lastAction' \in KeyActions =>
       /\ gridCubes(gameGrid') = gridCubes(gameGrid)
       /\ score' = score
       /\ level' = level
       /\ highScore' = highScore
       /\ gameEnd' = gameEnd
       /\ nextPiece' = nextPiece
       /\ currentPiece'.shape = currentPiece.shape
       /\ Len(currentPiece'.cubeList) = 4
       /\ Cardinality(CellSet(currentPiece')) = 4]_vars

\* The part that holds whatever the two pieces share: the keys keep the
\* occupied cells of the grid, the counters, gameEnd, the shape tags and the
\* four distinct cells of currentPiece.
C36_KeysKeepCountersAndCells ==
  [][lastAction' \in KeyActions =>
       /\ occupiedCells(gameGrid') = occupiedCells(gameGrid)
       /\ score' = score
       /\ level' = level
       /\ highScore' = highScore
       /\ gameEnd' = gameEnd
       /\ nextPiece'.shape = nextPiece.shape
       /\ currentPiece'.shape = currentPiece.shape
       /\ Len(currentPiece'.cubeList) = 4
       /\ Cardinality(CellSet(currentPiece')) = 4]_vars

-----------------------------------------------------------------------------
(* A game without key input: from initialState, or from the state           *)
(* restartGame returns, the interval of dynamicTick$ delivers the only      *)
(* events; every lock draws the next piece among the enabled ones.          *)

InitTicks ==
  \E currentIndex \in RandomIndices, nextIndex \in RandomIndices,
     restarted \in BOOLEAN, formerHighScore \in 0..MaxScoreIn :
    LET start == restartGame([gameEnd |-> TRUE, gameGrid |-> emptyGrid,
                              currentPiece |-> getRandomPiece(preparePieces, currentIndex),
                              nextPiece |-> getRandomPiece(preparePieces, nextIndex),
                              level |-> 0, score |-> 0,
                              highScore |-> formerHighScore, nextShared |-> FALSE],
                             currentIndex, nextIndex)
    IN  /\ restarted \/ formerHighScore = 0
        /\ gameEnd = start.gameEnd
        /\ gameGrid = start.gameGrid
        /\ currentPiece = start.currentPiece
        /\ nextPiece = start.nextPiece
        /\ level = start.level
        /\ score = start.score
        /\ highScore = start.highScore
        /\ nextShared = (restarted /\ start.nextShared)
        /\ scoreSeen = 0
        /\ timerPeriod = tickRate(0)
        /\ timerFired = FALSE
        /\ steps = 0
        /\ lastAction = IF restarted THEN "restart" ELSE "init"

TickOnly ==
  \E randomIndex \in RandomIndices :
    \E t \in {tick(State, randomIndex)} : PlayOn(t, "tick")

SpecTicks == InitTicks /\ [][TickOnly]_vars /\ WF_vars(TickOnly)

\* C37: with no key input the game ends: from the initial state or the state
\* restartGame returns, under ticks alone and whatever pieces are drawn,
\* gameEnd eventually becomes true.
C37_TicksEndGame == <>gameEnd

\* Ticks alone have ended the game: the cubes stand in the spawn columns and
\* reach row 0.
C37_Witness ==
  /\ gameEnd
  /\ lastAction = "tick"
  /\ rowZeroOccupied(gameGrid)
  /\ \A cell \in occupiedCells(gameGrid) : cell[1] >= GRID_WIDTH \div 2

\* C38: level always equals score: in every reachable state level = score.
C38_LevelEqualsScore == level = score

\* A tick has completed rows and given the new score to both fields.
C38_Witness ==
  /\ lastAction = "tick"
  /\ level > 0
  /\ level = score

====
